---- MODULE Spec2Model ----
(***************************************************************************)
(* A model of the HTML redaction tool: the pattern compiler and the        *)
(* scan/transform engine of services/redaction.js, and the per-file loops  *)
(* of services/fileProcessor.js.                                           *)
(*                                                                         *)
(* Text is a sequence of one-character strings.  Offsets are 0-based as    *)
(* in JavaScript: the character at offset p of s is s[p + 1].              *)
(***************************************************************************)
EXTENDS Integers, Sequences, FiniteSets, TLC

(***************************************************************************)
(* Bounds of the model.                                                    *)
(***************************************************************************)
MaxContentLen == 2
MaxSrcLen == 3
MaxListLen == 2
MaxMatches == 4
MaxFiles == 3
\* The longest buffer a pattern is still applied to.
MaxBufferLen == 80

(***************************************************************************)
(* Sequence helpers.                                                       *)
(***************************************************************************)
RECURSIVE Flatten(_)
Flatten(ss) == IF ss = <<>> THEN <<>> ELSE Head(ss) \o Flatten(Tail(ss))

Slice(s, from, to) == SubSeq(s, from + 1, to)

Strings(alphabet, n) == UNION {[1..m -> alphabet] : m \in 0..n}

Rep(c, n) == [i \in 1..n |-> c]

Range(s) == {s[i] : i \in DOMAIN s}

\* Number of (possibly overlapping) occurrences of the text w in s.
Occurrences(s, w) ==
    Cardinality({p \in 0..(Len(s) - Len(w)) : Slice(s, p, p + Len(w)) = w})

(***************************************************************************)
(* Character classes used by the patterns of the program.                  *)
(***************************************************************************)
Digit == {"0", "1", "2", "3", "4", "5", "6", "7", "8", "9"}
Lower == {"a", "b", "c", "d", "e", "f", "g", "h", "i", "j", "k", "l", "m",
          "n", "o", "p", "q", "r", "s", "t", "u", "v", "w", "x", "y", "z"}
Upper == {"A", "B", "C", "D", "E", "F", "G", "H", "I", "J", "K", "L", "M",
          "N", "O", "P", "Q", "R", "S", "T", "U", "V", "W", "X", "Y", "Z"}
WordChar == Digit \cup Lower \cup Upper \cup {"_"}
Space == {" "}

(***************************************************************************)
(* Regular expressions as trees.  Every node has the same fields:          *)
(*   k = "chr"  one character of the set cs                                *)
(*   k = "seq"  the items one after the other                              *)
(*   k = "alt"  the first of the items that leads to a match               *)
(*   k = "rep"  items[1] repeated min..max times (max = -1: unbounded),    *)
(*              greedy or lazy                                             *)
(*   k = "bol", "eol", "wb"   the assertions ^, $ and \b                   *)
(***************************************************************************)
Node(kind, chars, sub, lo, hi, g) ==
    [k |-> kind, cs |-> chars, items |-> sub, min |-> lo, max |-> hi, greedy |-> g]
Chr(chars) == Node("chr", chars, <<>>, 0, 0, TRUE)
Cat(sub) == Node("seq", {}, sub, 0, 0, TRUE)
Alt(sub) == Node("alt", {}, sub, 0, 0, TRUE)
Quant(body, lo, hi) == Node("rep", {}, <<body>>, lo, hi, TRUE)
Lazy(body, lo, hi) == Node("rep", {}, <<body>>, lo, hi, FALSE)
Opt(body) == Quant(body, 0, 1)
Plus(body) == Quant(body, 1, -1)
Star(body) == Quant(body, 0, -1)
Bol == Node("bol", {}, <<>>, 0, 0, TRUE)
Eol == Node("eol", {}, <<>>, 0, 0, TRUE)
WordBoundary == Node("wb", {}, <<>>, 0, 0, TRUE)

IsWordAt(s, p) == p >= 0 /\ p < Len(s) /\ s[p + 1] \in WordChar

(***************************************************************************)
(* The backtracking matcher: Ends(r, s, p) is the sequence of offsets at   *)
(* which a match of r that starts at offset p of s can end, in the order   *)
(* in which backtracking tries them.  The match the engine reports is the  *)
(* first.  An iteration of a quantifier that consumes nothing once the     *)
(* minimum is reached is rejected, as ECMAScript's RepeatMatcher does.     *)
(***************************************************************************)
RECURSIVE Ends(_, _, _)
RECURSIVE SeqEnds(_, _, _, _)
RECURSIVE RepEnds(_, _, _, _)

SeqEnds(items, j, s, p) ==
    IF j > Len(items) THEN <<p>>
    ELSE LET first == Ends(items[j], s, p)
         IN Flatten([i \in 1..Len(first) |-> SeqEnds(items, j + 1, s, first[i])])

RepEnds(r, count, s, p) ==
    LET stop == IF count >= r.min THEN <<p>> ELSE <<>>
        body == IF r.max = -1 \/ count < r.max THEN Ends(r.items[1], s, p) ELSE <<>>
        more == Flatten([i \in 1..Len(body) |->
                    IF body[i] = p /\ count >= r.min THEN <<>>
                    ELSE RepEnds(r, count + 1, s, body[i])])
    IN IF r.greedy THEN more \o stop ELSE stop \o more

Ends(r, s, p) ==
    CASE r.k = "chr" -> IF p < Len(s) /\ s[p + 1] \in r.cs THEN <<p + 1>> ELSE <<>>
      [] r.k = "seq" -> SeqEnds(r.items, 1, s, p)
      [] r.k = "alt" -> Flatten([j \in 1..Len(r.items) |-> Ends(r.items[j], s, p)])
      [] r.k = "rep" -> RepEnds(r, 0, s, p)
      [] r.k = "bol" -> IF p = 0 THEN <<p>> ELSE <<>>
      [] r.k = "eol" -> IF p = Len(s) THEN <<p>> ELSE <<>>
      [] r.k = "wb"  -> IF IsWordAt(s, p - 1) # IsWordAt(s, p) THEN <<p>> ELSE <<>>

NoMatch == [found |-> FALSE, index |-> 0, end |-> 0]

\* The leftmost match of r in s at or after offset from.
RECURSIVE Search(_, _, _)
Search(r, s, from) ==
    IF from > Len(s) THEN NoMatch
    ELSE LET e == Ends(r, s, from)
         IN IF e # <<>> THEN [found |-> TRUE, index |-> from, end |-> e[1]]
            ELSE Search(r, s, from + 1)

(***************************************************************************)
(* JavaScript's RegExp objects and the String methods the program calls.   *)
(* A RegExp object is a record: its identity id, its tree ast, its global  *)
(* and sticky flags and its source text src.  Its lastIndex is mutable and *)
(* lives in the variable lastIndex, indexed by id.                         *)
(***************************************************************************)
RegExp(ident, tree, g, source) ==
    [id |-> ident, ast |-> tree, global |-> g, sticky |-> FALSE, src |-> source]

\* The same pattern with the y flag.
Sticky(re) == [re EXCEPT !.sticky = TRUE]

\* What is left of the match m when a match has to start at offset from.
MatchAt(m, from) == IF m.found /\ m.index = from THEN m ELSE NoMatch

\* RegExp.prototype.exec: a global or sticky pattern starts at its lastIndex
\* and leaves the end of the match there (0 when nothing matches), a sticky
\* one matching at that offset only; a pattern with neither flag starts at
\* 0 and leaves lastIndex alone.
ExecResult(re, li, m) ==
    [found |-> m.found, index |-> m.index, end |-> m.end,
     lastIndex |-> IF re.global \/ re.sticky
                   THEN (IF m.found THEN m.end ELSE 0) ELSE li]

ExecFrom(re, from, li, s) ==
    ExecResult(re, li, IF re.sticky THEN MatchAt(Search(re.ast, s, from), from)
                       ELSE Search(re.ast, s, from))

RegExpExec(re, li, s) == ExecFrom(re, IF re.global \/ re.sticky THEN li ELSE 0, li, s)

\* The matches String.prototype.replace and String.prototype.match collect
\* for a global pattern: lastIndex is set to 0, exec is repeated, and after
\* an empty match lastIndex is advanced by one.
RECURSIVE GlobalMatches(_, _, _)
GlobalMatches(re, s, li) ==
    LET m == RegExpExec(re, li, s)
    IN IF ~m.found THEN <<>>
       ELSE <<m>> \o GlobalMatches(re, s,
                        IF m.end = m.index THEN m.lastIndex + 1 ELSE m.lastIndex)

\* The matches replace rewrites when the pattern's lastIndex is li: all of a
\* global pattern's, the one exec finds for a pattern without the flag.
ReplaceMatchesFrom(re, s, li) ==
    IF re.global THEN GlobalMatches(re, s, 0)
    ELSE LET m == RegExpExec(re, li, s) IN IF m.found THEN <<m>> ELSE <<>>

ReplaceMatches(re, s) == ReplaceMatchesFrom(re, s, 0)

\* What replace puts in the place of a match: a literal text, or the text a
\* callback builds around the matched text.
Replacement(open, keep, close) == [open |-> open, keep |-> keep, close |-> close]

Replaced(matched, r) == r.open \o (IF r.keep THEN matched ELSE <<>>) \o r.close

\* The text replace builds: the text between the matches kept, every match
\* replaced by what r makes of the matched text.
Splice(s, ms, r) ==
    Flatten([i \in 1..Len(ms) |->
                Slice(s, IF i = 1 THEN 0 ELSE ms[i - 1].end, ms[i].index)
                \o Replaced(Slice(s, ms[i].index, ms[i].end), r)])
    \o Slice(s, IF ms = <<>> THEN 0 ELSE ms[Len(ms)].end, Len(s))

StrReplaceFrom(s, re, r, li) == Splice(s, ReplaceMatchesFrom(re, s, li), r)

StrReplace(s, re, r) == StrReplaceFrom(s, re, r, 0)

\* lastIndex after s.replace(re, ...) or s.match(re): reset for a global
\* pattern, what the one exec leaves for a pattern without the global flag.
LastIndexAfterReplace(re, li, s) ==
    IF re.global THEN 0 ELSE RegExpExec(re, li, s).lastIndex

RECURSIVE Split(_, _)
Split(s, sep) ==
    IF \E i \in 1..Len(s) : s[i] = sep
    THEN LET i == CHOOSE j \in 1..Len(s) : s[j] = sep /\ \A h \in 1..(j - 1) : s[h] # sep
         IN <<SubSeq(s, 1, i - 1)>> \o Split(SubSeq(s, i + 1, Len(s)), sep)
    ELSE <<s>>

RECURSIVE Trim(_)
Trim(s) ==
    IF s = <<>> THEN s
    ELSE IF Head(s) \in Space THEN Trim(Tail(s))
    ELSE IF s[Len(s)] \in Space THEN Trim(SubSeq(s, 1, Len(s) - 1))
    ELSE s

(***************************************************************************)
(* Texts of the program.                                                   *)
(***************************************************************************)
EmailSource ==
    <<"(", "[", "a", "-", "z", "A", "-", "Z", "0", "-", "9", "_", ".", "+",
      "-", "]", "+", "@", "[", "a", "-", "z", "A", "-", "Z", "0", "-", "9",
      "-", "]", "+", "\\", ".", "[", "a", "-", "z", "A", "-", "Z", "0", "-",
      "9", "-", ".", "]", "+", ")">>
PhoneSource ==
    <<"(", "\\", "+", "\\", "d", "{", "1", ",", "3", "}", "[", "\\", "s",
      "-", "]", ")", "?", "\\", "(", "?", "\\", "d", "{", "3", "}", "\\",
      ")", "?", "[", "\\", "s", ".", "-", "]", "?", "\\", "d", "{", "3", "}",
      "[", "\\", "s", ".", "-", "]", "?", "\\", "d", "{", "4", "}">>
SsnSource ==
    <<"\\", "b", "\\", "d", "{", "3", "}", "[", "-", ".", "]", "?", "\\",
      "d", "{", "2", "}", "[", "-", ".", "]", "?", "\\", "d", "{", "4", "}",
      "\\", "b">>
CardSource ==
    <<"\\", "b", "(", "?", ":", "\\", "d", "[", " ", "-", "]", "*", "?", ")",
      "{", "1", "3", ",", "1", "6", "}", "\\", "b">>
MarkOpen ==
    <<"<", "m", "a", "r", "k", " ", "c", "l", "a", "s", "s", "=", "\"", "r",
      "e", "d", "a", "c", "t", "-", "h", "i", "g", "h", "l", "i", "g", "h",
      "t", "\"", ">">>
MarkClose ==
    <<"<", "/", "m", "a", "r", "k", ">">>
RedactionToken ==
    <<"[", "R", "E", "D", "A", "C", "T", "E", "D", "]">>

Alnum == Lower \cup Upper \cup Digit

EmailAst ==
    Cat(<<Plus(Chr(Alnum \cup {"_", ".", "+", "-"})), Chr({"@"}),
          Plus(Chr(Alnum \cup {"-"})), Chr({"."}),
          Plus(Chr(Alnum \cup {"-", "."}))>>)
PhoneAst ==
    Cat(<<Opt(Cat(<<Chr({"+"}), Quant(Chr(Digit), 1, 3), Chr(Space \cup {"-"})>>)),
          Opt(Chr({"("})), Quant(Chr(Digit), 3, 3), Opt(Chr({")"})),
          Opt(Chr(Space \cup {".", "-"})), Quant(Chr(Digit), 3, 3),
          Opt(Chr(Space \cup {".", "-"})), Quant(Chr(Digit), 4, 4)>>)
SsnAst ==
    Cat(<<WordBoundary, Quant(Chr(Digit), 3, 3), Opt(Chr({"-", "."})),
          Quant(Chr(Digit), 2, 2), Opt(Chr({"-", "."})),
          Quant(Chr(Digit), 4, 4), WordBoundary>>)
CardAst ==
    Cat(<<WordBoundary,
          Quant(Cat(<<Chr(Digit), Lazy(Chr({" ", "-"}), 0, -1)>>), 13, 16),
          WordBoundary>>)

DEFAULT_PATTERNS ==
    <<RegExp(<<"default", 1>>, EmailAst, TRUE, EmailSource),
      RegExp(<<"default", 2>>, PhoneAst, TRUE, PhoneSource),
      RegExp(<<"default", 3>>, SsnAst, TRUE, SsnSource),
      RegExp(<<"default", 4>>, CardAst, TRUE, CardSource)>>

(***************************************************************************)
(* JavaScript values that reach the program as content or as pattern spec. *)
(*   content:  [t, v]            t = "string" carries the text v           *)
(*   spec:     [t, chars, items] t = "string" carries chars, t = "list"    *)
(*                               carries items, t = "regexp" carries the   *)
(*                               RegExp object as items[1]                 *)
(*   element of a list: [t, chars, re]                                     *)
(***************************************************************************)
Text(v) == [t |-> "string", v |-> v]
Null == [t |-> "null", v |-> <<>>]
Undefined == [t |-> "undefined", v |-> <<>>]
Number5 == [t |-> "number", v |-> <<"5">>]
Object == [t |-> "object", v |-> <<>>]

\* ToString, which RegExp.prototype.exec applies to its argument.
JsToString(x) ==
    CASE x.t = "string" -> x.v
      [] x.t = "null" -> <<"n", "u", "l", "l">>
      [] x.t = "undefined" -> <<"u", "n", "d", "e", "f", "i", "n", "e", "d">>
      [] x.t = "number" -> x.v
      [] x.t = "object" -> <<"[", "o", "b", "j", "e", "c", "t", " ",
                             "O", "b", "j", "e", "c", "t", "]">>

NoRegExp == RegExp(<<"none", 0>>, Cat(<<>>), FALSE, <<>>)

StringElem(chars) == [t |-> "string", chars |-> chars, re |-> NoRegExp]
RegExpElem(re) == [t |-> "regexp", chars |-> <<>>, re |-> re]
NumberElem == [t |-> "number", chars |-> <<"5">>, re |-> NoRegExp]

NullSpec == [t |-> "null", chars |-> <<>>, items |-> <<>>]
UndefinedSpec == [t |-> "undefined", chars |-> <<>>, items |-> <<>>]
StringSpec(chars) == [t |-> "string", chars |-> chars, items |-> <<>>]
ListSpec(items) == [t |-> "list", chars |-> <<>>, items |-> items]
RegExpSpec(re) == [t |-> "regexp", chars |-> <<>>, items |-> <<RegExpElem(re)>>]

(***************************************************************************)
(* new RegExp(patternStr, 'g').  The sources of the model are written with *)
(* ordinary characters and the star quantifier: a star with nothing to     *)
(* repeat before it, at the start or after another star, is a SyntaxError. *)
(***************************************************************************)
RECURSIVE ParseTerms(_, _)
ParseTerms(src, i) ==
    IF i > Len(src) THEN [ok |-> TRUE, items |-> <<>>]
    ELSE IF src[i] = "*" THEN [ok |-> FALSE, items |-> <<>>]
    ELSE LET starred == i < Len(src) /\ src[i + 1] = "*"
             term == IF starred THEN Star(Chr({src[i]})) ELSE Chr({src[i]})
             rest == ParseTerms(src, IF starred THEN i + 2 ELSE i + 1)
         IN [ok |-> rest.ok, items |-> <<term>> \o rest.items]

\* The source property of the new object: "(?:)" for the empty pattern, and
\* every / escaped.
RegExpSource(patternStr) ==
    IF patternStr = <<>> THEN <<"(", "?", ":", ")">>
    ELSE Flatten([i \in 1..Len(patternStr) |->
                     IF patternStr[i] = "/" THEN <<"\\", "/">> ELSE <<patternStr[i]>>])

NewRegExp(ident, patternStr) ==
    LET parsed == ParseTerms(patternStr, 1)
    IN [ok |-> parsed.ok,
        re |-> RegExp(ident, Cat(parsed.items), TRUE, RegExpSource(patternStr))]

\* pattern.toString()
RegExpToString(re) ==
    <<"/">> \o re.src \o <<"/">> \o (IF re.global THEN <<"g">> ELSE <<>>)
    \o (IF re.sticky THEN <<"y">> ELSE <<>>)

(***************************************************************************)
(* compilePatterns                                                         *)
(***************************************************************************)
\* /^\/|\/[gimuy]*$/g
DelimiterRegExp ==
    RegExp(<<"literal", 34>>,
           Alt(<<Cat(<<Bol, Chr({"/"})>>),
                 Cat(<<Chr({"/"}), Star(Chr({"g", "i", "m", "u", "y"})), Eol>>)>>),
           TRUE, <<>>)

EmptyText == Replacement(<<>>, FALSE, <<>>)

\* !customPatterns
Falsy(spec) ==
    spec.t \in {"null", "undefined"} \/ (spec.t = "string" /\ spec.chars = <<>>)

\* customPatterns.split(',').map(p => p.trim()), or the list itself.
PatternSources(spec) ==
    IF spec.t = "list" THEN spec.items
    ELSE LET pieces == Split(spec.chars, ",")
         IN [i \in 1..Len(pieces) |-> StringElem(Trim(pieces[i]))]

\* The body of the map callback for the i-th source: the object it returns,
\* or ok = FALSE for null (the catch branch: a SyntaxError of new RegExp, or
\* the TypeError of calling replace on a value that is no string).
CompileOne(elem, i) ==
    IF elem.t = "regexp" THEN [ok |-> TRUE, re |-> elem.re]
    ELSE IF elem.t # "string" THEN [ok |-> FALSE, re |-> NoRegExp]
    ELSE NewRegExp(<<"new", i>>, StrReplace(elem.chars, DelimiterRegExp, EmptyText))

\* A filter that lets the nulls through.
FilterKeepsNull(mapped) == [i \in 1..Len(mapped) |-> mapped[i].re]

\* .filter(Boolean)
FilterCompiled(mapped) ==
    LET kept == SelectSeq(mapped, LAMBDA c : c.ok)
    IN [i \in 1..Len(kept) |-> kept[i].re]

\* threw: the TypeError of customPatterns.split on a value that is neither a
\* string nor a list.
compilePatterns(spec) ==
    IF Falsy(spec) THEN [threw |-> FALSE, list |-> DEFAULT_PATTERNS]
    ELSE IF spec.t \notin {"list", "string"} THEN [threw |-> TRUE, list |-> <<>>]
    ELSE LET sources == PatternSources(spec)
         IN [threw |-> FALSE,
             list |-> FilterCompiled([i \in 1..Len(sources) |-> CompileOne(sources[i], i)])]

(***************************************************************************)
(* The inputs the model draws from.                                        *)
(***************************************************************************)
ContentAlphabet == {"a", "D"}
SrcAlphabet == {"a", "*", ","}

\* Pattern objects a caller builds itself: /a/ and /a/g.
UserPatternA == RegExp(<<"user", 1>>, Cat(<<Chr({"a"})>>), FALSE, <<"a">>)
UserPatternAg == RegExp(<<"user", 2>>, Cat(<<Chr({"a"})>>), TRUE, <<"a">>)
\* and /a/y
UserPatternAy == Sticky(RegExp(<<"user", 3>>, Cat(<<Chr({"a"})>>), FALSE, <<"a">>))

SmallContents == {Text(s) : s \in Strings(ContentAlphabet, MaxContentLen)}
NonTextContents == {Null, Undefined, Number5, Object}

\* Strings that hold one instance of one default category, alone or with a
\* word before or after it.
Digits(n) == Rep("4", n)
Grouped(groups, sep) ==
    Flatten([i \in 1..Len(groups) |->
                (IF i = 1 THEN <<>> ELSE sep) \o Digits(groups[i])])
EmailInstances == {<<"a", "@", "b", ".", "c", "o">>,
                   <<"a", ".", "b", "+", "1", "@", "c", "-", "d", ".", "o", "r", "g">>}
PhoneInstances ==
    {Grouped(<<3, 3, 4>>, sep) : sep \in {<<>>, <<"-">>, <<" ">>, <<".">>}}
    \cup {<<"(">> \o Digits(3) \o <<")", " ">> \o Digits(3) \o <<"-">> \o Digits(4)}
    \cup {<<"+">> \o Digits(n) \o sep \o Grouped(<<3, 3, 4>>, sep) :
             n \in 1..2, sep \in {<<"-">>, <<" ">>}}
SsnInstances == {Grouped(<<3, 2, 4>>, sep) : sep \in {<<>>, <<"-">>, <<".">>}}
CardInstances ==
    {Digits(n) : n \in 13..16}
    \cup {Grouped(<<4, 4, 4, 4>>, sep) : sep \in {<<" ">>, <<"-">>}}
Instances(category) ==
    CASE category = 1 -> EmailInstances
      [] category = 2 -> PhoneInstances
      [] category = 3 -> SsnInstances
      [] category = 4 -> CardInstances
Before == {<<>>, <<"x", " ">>}
After == {<<>>, <<" ", "x">>}
CraftedCases ==
    {[category |-> c, instance |-> i, text |-> b \o i \o a] :
        c \in 1..4, i \in UNION {Instances(n) : n \in 1..4}, b \in Before, a \in After}
CraftedOf(c) == {x \in CraftedCases : x.instance \in Instances(c) /\ x.category = c}
Crafted == UNION {CraftedOf(c) : c \in 1..4}
CraftedContents == {Text(x.text) : x \in Crafted}

StringSpecs ==
    {StringSpec(s) : s \in Strings(SrcAlphabet, MaxSrcLen)}
    \cup {StringSpec(<<"D">>), StringSpec(<<"a", ",", "D">>), StringSpec(<<"D", ",", "a">>),
          StringSpec(<<" ", "a", " ", ",", " ", "D">>), StringSpec(<<"/", "a", "/", "g">>)}
ListPool ==
    {StringElem(<<"D">>), StringElem(<<"*">>), RegExpElem(UserPatternA),
     RegExpElem(UserPatternAg)}
ListSpecs ==
    {ListSpec(l) : l \in Strings(ListPool, MaxListLen)}
    \cup {ListSpec(<<NumberElem>>), ListSpec(<<NumberElem, RegExpElem(UserPatternAg)>>)}
PatternSpecs ==
    {NullSpec, UndefinedSpec, RegExpSpec(UserPatternAg)} \cup StringSpecs \cup ListSpecs

\* The specs tried with a content that is no text: the defaults, one
\* pattern, no pattern left after compiling, no pattern at all.
NonTextSpecs ==
    {NullSpec, StringSpec(<<"a">>), StringSpec(<<"*">>), ListSpec(<<>>),
     RegExpSpec(UserPatternAg)}

\* The calls: every small content with every spec, the contents that are no
\* text with NonTextSpecs, and the crafted strings with the default patterns.
Calls ==
    (SmallContents \X PatternSpecs)
    \cup (NonTextContents \X NonTextSpecs)
    \cup (CraftedContents \X {NullSpec})

(***************************************************************************)
(* State.                                                                  *)
(***************************************************************************)
VARIABLES
    pc,                 \* "idle", "identify", "preview", "redact", "done", "threw"
    op,                 \* the function called last
    content,            \* its content argument
    patterns,           \* its patterns argument
    compiledPatterns,   \* the list compilePatterns returned
    k,                  \* forEach: the position of the pattern being processed
    matches,            \* identifySensitiveText: the matches array
    buffer,             \* previewContent / redactedContent
    result,             \* the value returned
    lastIndex,          \* lastIndex of every live RegExp object, by id
    \* services/fileProcessor.js
    fpc,                \* "idle", "loop", "returned"
    mode,               \* "preview" or "redaction"
    folderPatterns,     \* the patterns argument
    htmlFiles,          \* the paths findHtmlFiles returned, in its order
    fi,                 \* for-of: the position of the file being processed
    results,            \* preview: relative path -> preview content
    processed,          \* redaction: the relative paths written
    errors,             \* path -> message
    output,             \* the output folder: relative path -> content written
    response,           \* the object returned
    \* public/script.js
    upc,                    \* "idle", or the await a handler is suspended at
    folderPath,             \* folderPathInput.value
    currentPreviewData,     \* the data of the last preview displayed, or null
    fetched,                \* the Response the pending fetch resolved with
    previewBtnDisabled,     \* previewBtn.disabled
    redactBtnDisabled,      \* redactBtn.disabled
    loadingHidden,          \* loadingIndicator has the class hidden
    errorHidden,            \* errorMessage has the class hidden
    errorText,              \* the text of errorMessage
    previewResultsHidden,   \* previewResults has the class hidden
    redactionResultsHidden  \* redactionResults has the class hidden

engineVars == <<pc, op, content, patterns, compiledPatterns, k, matches, buffer,
                result, lastIndex>>
fileVars == <<fpc, mode, folderPatterns, htmlFiles, fi, results, processed, errors,
              output, response>>
uiVars == <<upc, folderPath, currentPreviewData, fetched, previewBtnDisabled,
            redactBtnDisabled, loadingHidden, errorHidden, errorText,
            previewResultsHidden, redactionResultsHidden>>
vars == <<engineVars, fileVars, uiVars>>

SharedIds == {DEFAULT_PATTERNS[i].id : i \in 1..Len(DEFAULT_PATTERNS)}
             \cup {UserPatternA.id, UserPatternAg.id, UserPatternAy.id}

NoResult == [kind |-> "none", matches |-> <<>>, count |-> 0, value |-> Undefined]
ScanResult(ms) == [kind |-> "scan", matches |-> ms, count |-> Len(ms), value |-> Undefined]
ValueResult(v) == [kind |-> "value", matches |-> <<>>, count |-> 0, value |-> v]

NoResponse ==
    [success |-> FALSE, returned |-> FALSE, fileCount |-> 0, errorsNull |-> TRUE,
     error |-> "none"]

EngineInit ==
    /\ pc = "idle"
    /\ op = "none"
    /\ content = Undefined
    /\ patterns = UndefinedSpec
    /\ compiledPatterns = <<>>
    /\ k = 1
    /\ matches = <<>>
    /\ buffer = Undefined
    /\ result = NoResult
    /\ lastIndex = [id \in SharedIds |-> 0]

FileInit ==
    /\ fpc = "idle"
    /\ mode = "none"
    /\ folderPatterns = UndefinedSpec
    /\ htmlFiles = <<>>
    /\ fi = 1
    /\ results = <<>>
    /\ processed = <<>>
    /\ errors = <<>>
    /\ output = <<>>
    /\ response = NoResponse

\* null, for currentPreviewData
NoData == [present |-> FALSE, success |-> FALSE, fileCount |-> 0, error |-> ""]

NoFetched == [ok |-> FALSE]

\* The page once DOMContentLoaded has run: nothing previewed, nothing
\* loading, no message and no result shown, the redact button disabled.
UiInit ==
    /\ upc = "idle"
    /\ folderPath = <<>>
    /\ currentPreviewData = NoData
    /\ fetched = NoFetched
    /\ previewBtnDisabled = FALSE
    /\ redactBtnDisabled = TRUE
    /\ loadingHidden = TRUE
    /\ errorHidden = TRUE
    /\ errorText = ""
    /\ previewResultsHidden = TRUE
    /\ redactionResultsHidden = TRUE

Init == EngineInit /\ FileInit /\ UiInit

\* The heap once a call has compiled its patterns: the shared objects keep
\* their lastIndex, the objects new RegExp created start at 0, and those of
\* the previous call are gone.
HeapWith(list) ==
    [id \in SharedIds \cup {list[i].id : i \in 1..Len(list)} |->
        IF id \in SharedIds THEN lastIndex[id] ELSE 0]

Ready == pc = "idle"

Enter(name, c, spec, compiled, next) ==
    /\ op' = name
    /\ content' = c
    /\ patterns' = spec
    /\ compiledPatterns' = compiled
    /\ k' = 1
    /\ matches' = <<>>
    /\ buffer' = c
    /\ result' = NoResult
    /\ lastIndex' = HeapWith(compiled)
    /\ pc' = next
    /\ UNCHANGED <<fileVars, uiVars>>

(***************************************************************************)
(* identifySensitiveText                                                   *)
(***************************************************************************)
IdentifyBegin(c, spec) ==
    /\ Ready
    /\ LET compiled == compilePatterns(spec)
       IN Enter("identify", c, spec, compiled.list,
                IF compiled.threw THEN "threw" ELSE "identify")

\* A record that takes the end of the match for its offset.
MatchRecordAtEnd(re, s, m) ==
    [text |-> Slice(s, m.index, m.end), index |-> m.end,
     length |-> m.end - m.index, pattern |-> RegExpToString(re)]

\* The record pushed for a match m of pattern re in the text s.
MatchRecord(re, s, m) ==
    [text |-> Slice(s, m.index, m.end), index |-> m.index,
     length |-> m.end - m.index, pattern |-> RegExpToString(re)]

\* One evaluation of the while condition, and the loop body when exec found
\* a match; the forEach moves on to the next pattern when it found none.
IdentifyExec ==
    /\ pc = "identify"
    /\ k <= Len(compiledPatterns)
    /\ LET re == compiledPatterns[k]
           s == JsToString(content)
           m == RegExpExec(re, lastIndex[re.id], s)
       IN /\ m.found => Len(matches) < MaxMatches
          /\ lastIndex' = [lastIndex EXCEPT ![re.id] = m.lastIndex]
          /\ matches' = IF m.found THEN Append(matches, MatchRecord(re, s, m)) ELSE matches
          /\ k' = IF m.found THEN k ELSE k + 1
    /\ UNCHANGED <<pc, op, content, patterns, compiledPatterns, buffer, result, fileVars, uiVars>>

IdentifyReturn ==
    /\ pc = "identify"
    /\ k > Len(compiledPatterns)
    /\ result' = ScanResult(matches)
    /\ pc' = "done"
    /\ UNCHANGED <<op, content, patterns, compiledPatterns, k, matches, buffer, lastIndex,
                   fileVars, uiVars>>

(***************************************************************************)
(* previewSensitiveContent                                                 *)
(***************************************************************************)
\* A marker that loses the text it wraps.
HighlightDropsText == Replacement(MarkOpen, FALSE, MarkClose)

Highlight == Replacement(MarkOpen, TRUE, MarkClose)

PreviewBegin(c, spec) ==
    /\ Ready
    /\ LET compiled == compilePatterns(spec)
       IN Enter("preview", c, spec, compiled.list,
                IF compiled.threw THEN "threw" ELSE "preview")

\* previewContent.replace(pattern, ...) for a pattern whose lastIndex is li:
\* the new text and the lastIndex it leaves.
PreviewApply(text, re, li) ==
    [text |-> StrReplaceFrom(text, re, Highlight, li),
     li |-> LastIndexAfterReplace(re, li, text)]

\* One call of the forEach callback.  previewContent.replace is a TypeError
\* when previewContent is no string.
PreviewStep ==
    /\ pc = "preview"
    /\ k <= Len(compiledPatterns)
    /\ Len(buffer.v) <= MaxBufferLen
    /\ LET re == compiledPatterns[k]
       IN IF buffer.t # "string"
          THEN /\ pc' = "threw"
               /\ UNCHANGED <<buffer, k, lastIndex>>
          ELSE LET a == PreviewApply(buffer.v, re, lastIndex[re.id])
               IN /\ buffer' = Text(a.text)
                  /\ lastIndex' = [lastIndex EXCEPT ![re.id] = a.li]
               /\ k' = k + 1
               /\ pc' = pc
    /\ UNCHANGED <<op, content, patterns, compiledPatterns, matches, result, fileVars, uiVars>>

PreviewReturn ==
    /\ pc = "preview"
    /\ k > Len(compiledPatterns)
    /\ result' = ValueResult(buffer)
    /\ pc' = "done"
    /\ UNCHANGED <<op, content, patterns, compiledPatterns, k, matches, buffer, lastIndex,
                   fileVars, uiVars>>

(***************************************************************************)
(* redactSensitiveContent                                                  *)
(***************************************************************************)
Redaction == Replacement(RedactionToken, FALSE, <<>>)

\* content.length is read before anything else: a TypeError for null and
\* undefined.
RedactBegin(c, spec) ==
    /\ Ready
    /\ LET compiled == compilePatterns(spec)
           threw == c.t \in {"null", "undefined"} \/ compiled.threw
       IN Enter("redact", c, spec, IF threw THEN <<>> ELSE compiled.list,
                IF threw THEN "threw" ELSE "redact")

\* redactedContent.match(pattern), then redactedContent.replace(pattern,
\* '[REDACTED]'), for a pattern whose lastIndex is li: the new text and the
\* lastIndex the two calls leave.
RedactApply(text, re, li) ==
    LET afterMatch == LastIndexAfterReplace(re, li, text)
    IN [text |-> StrReplaceFrom(text, re, Redaction, afterMatch),
        li |-> LastIndexAfterReplace(re, afterMatch, text)]

\* One call of the forEach callback: redactedContent.match (a TypeError when
\* redactedContent is no string; its count is only logged) and then
\* redactedContent.replace.
RedactStep ==
    /\ pc = "redact"
    /\ k <= Len(compiledPatterns)
    /\ Len(buffer.v) <= MaxBufferLen
    /\ LET re == compiledPatterns[k]
       IN IF buffer.t # "string"
          THEN /\ pc' = "threw"
               /\ UNCHANGED <<buffer, k, lastIndex>>
          ELSE LET a == RedactApply(buffer.v, re, lastIndex[re.id])
               IN /\ buffer' = Text(a.text)
                  /\ lastIndex' = [lastIndex EXCEPT ![re.id] = a.li]
               /\ k' = k + 1
               /\ pc' = pc
    /\ UNCHANGED <<op, content, patterns, compiledPatterns, matches, result, fileVars, uiVars>>

RedactReturn ==
    /\ pc = "redact"
    /\ k > Len(compiledPatterns)
    /\ result' = ValueResult(buffer)
    /\ pc' = "done"
    /\ UNCHANGED <<op, content, patterns, compiledPatterns, k, matches, buffer, lastIndex,
                   fileVars, uiVars>>

(***************************************************************************)
(* The call is over: its result (or its exception) has gone to the caller  *)
(* and its locals are dropped.  What stays is the module: the shared       *)
(* pattern objects with their lastIndex.                                   *)
(***************************************************************************)
CallEnds ==
    /\ pc \in {"done", "threw"}
    /\ pc' = "idle"
    /\ op' = "none"
    /\ content' = Undefined
    /\ patterns' = UndefinedSpec
    /\ compiledPatterns' = <<>>
    /\ k' = 1
    /\ matches' = <<>>
    /\ buffer' = Undefined
    /\ result' = NoResult
    /\ lastIndex' = [id \in SharedIds |-> lastIndex[id]]
    /\ UNCHANGED <<fileVars, uiVars>>

(***************************************************************************)
(* The engine as the file processor calls it: one call, run to its end.    *)
(***************************************************************************)
RECURSIVE PreviewFold(_, _, _)
PreviewFold(text, list, i) ==
    IF i > Len(list) THEN text
    ELSE PreviewFold(StrReplace(text, list[i], Highlight), list, i + 1)

RECURSIVE RedactFold(_, _, _)
RedactFold(text, list, i) ==
    IF i > Len(list) THEN text
    ELSE RedactFold(StrReplace(text, list[i], Redaction), list, i + 1)

previewSensitiveContent(text, spec) ==
    LET compiled == compilePatterns(spec)
    IN [threw |-> compiled.threw,
        value |-> IF compiled.threw THEN <<>> ELSE PreviewFold(text, compiled.list, 1)]

redactSensitiveContent(text, spec) ==
    LET compiled == compilePatterns(spec)
    IN [threw |-> compiled.threw,
        value |-> IF compiled.threw THEN <<>> ELSE RedactFold(text, compiled.list, 1)]

(***************************************************************************)
(* services/fileProcessor.js.  A path is a number; path.relative maps the  *)
(* paths of one folder one-to-one, so a file's relative path is modelled   *)
(* by the same number.  What the file system does (the files found and     *)
(* their order, a read, mkdir or write that fails) is chosen freely.       *)
(***************************************************************************)
Paths == 1..MaxFiles

FileContent(path) == IF path % 2 = 1 THEN <<"a", "D">> ELSE <<"D">>

\* What a request body can carry as patterns: nothing, a string, a number.
NumberSpec == [t |-> "number", chars |-> <<>>, items |-> <<>>]
FolderSpecs == {NullSpec, StringSpec(<<"a">>), NumberSpec}

\* The lists findHtmlFiles can return: distinct paths in any order.
Discoveries ==
    {l \in Strings(Paths, MaxFiles) : \A i, j \in 1..Len(l) : i # j => l[i] # l[j]}

Put(map, key, value) ==
    [x \in DOMAIN map \cup {key} |-> IF x = key THEN value ELSE map[x]]

StartLoop(name, spec, found) ==
    /\ fpc = "idle"
    /\ mode' = name
    /\ folderPatterns' = spec
    /\ htmlFiles' = found
    /\ fi' = 1
    /\ fpc' = "loop"
    /\ UNCHANGED <<results, processed, errors, output, response, engineVars, uiVars>>

\* findHtmlFiles threw: the outer catch returns the failure.
ScanFails(name, spec) ==
    /\ fpc = "idle"
    /\ mode' = name
    /\ folderPatterns' = spec
    /\ response' = [success |-> FALSE, returned |-> TRUE, fileCount |-> 0,
                    errorsNull |-> TRUE, error |-> "Failed to process directory"]
    /\ fpc' = "returned"
    /\ UNCHANGED <<htmlFiles, fi, results, processed, errors, output, engineVars, uiVars>>

PreviewScan(spec, found) == StartLoop("preview", spec, found)
PreviewScanFails(spec) == ScanFails("preview", spec)
RedactionScan(spec, found) == StartLoop("redaction", spec, found)
RedactionScanFails(spec) == ScanFails("redaction", spec)

\* A loop that a failure ends.
AfterFailureBreaks(i) == Len(htmlFiles) + 1

\* Where the for-of loop goes after the catch block of one file.
AfterFailure(i) == i + 1

\* The catch block: errors[filePath] = ...
FileFails(message) ==
    /\ errors' = Put(errors, htmlFiles[fi], message)
    /\ fi' = AfterFailure(fi)
    /\ UNCHANGED <<results, processed, output>>

\* One iteration of the loop of processHTMLFilesForPreview.
PreviewFile(readOk) ==
    /\ fpc = "loop"
    /\ mode = "preview"
    /\ fi <= Len(htmlFiles)
    /\ LET path == htmlFiles[fi]
           preview == previewSensitiveContent(FileContent(path), folderPatterns)
       IN IF ~readOk THEN FileFails("Error processing file: read")
          ELSE IF preview.threw THEN FileFails("Error processing file: TypeError")
          ELSE /\ results' = Put(results, path, preview.value)
               /\ fi' = fi + 1
               /\ UNCHANGED <<processed, errors, output>>
    /\ UNCHANGED <<fpc, mode, folderPatterns, htmlFiles, response, engineVars, uiVars>>

PreviewFinish ==
    /\ fpc = "loop"
    /\ mode = "preview"
    /\ fi > Len(htmlFiles)
    /\ response' = [success |-> TRUE, returned |-> TRUE,
                    fileCount |-> Cardinality(DOMAIN results),
                    errorsNull |-> ~(Cardinality(DOMAIN errors) > 0), error |-> "none"]
    /\ fpc' = "returned"
    /\ UNCHANGED <<mode, folderPatterns, htmlFiles, fi, results, processed, errors,
                   output, engineVars, uiVars>>

\* One iteration of the loop of processHTMLFilesForRedaction: readFile,
\* redactSensitiveContent, ensureOutputDir (mkdir), writeFile, push.
RedactionFile(readOk, mkdirOk, writeOk) ==
    /\ fpc = "loop"
    /\ mode = "redaction"
    /\ fi <= Len(htmlFiles)
    /\ LET path == htmlFiles[fi]
           redacted == redactSensitiveContent(FileContent(path), folderPatterns)
       IN IF ~readOk THEN FileFails("Error processing file: read")
          ELSE IF redacted.threw THEN FileFails("Error processing file: TypeError")
          ELSE IF ~mkdirOk THEN FileFails("Error processing file: mkdir")
          ELSE IF ~writeOk THEN FileFails("Error processing file: write")
          ELSE /\ output' = Put(output, path, redacted.value)
               /\ processed' = Append(processed, path)
               /\ fi' = fi + 1
               /\ UNCHANGED <<results, errors>>
    /\ UNCHANGED <<fpc, mode, folderPatterns, htmlFiles, response, engineVars, uiVars>>

RedactionFinish ==
    /\ fpc = "loop"
    /\ mode = "redaction"
    /\ fi > Len(htmlFiles)
    /\ response' = [success |-> TRUE, returned |-> TRUE, fileCount |-> Len(processed),
                    errorsNull |-> ~(Cardinality(DOMAIN errors) > 0), error |-> "none"]
    /\ fpc' = "returned"
    /\ UNCHANGED <<mode, folderPatterns, htmlFiles, fi, results, processed, errors,
                   output, engineVars, uiVars>>

FileNext ==
    \/ \E spec \in FolderSpecs, found \in Discoveries : PreviewScan(spec, found)
    \/ \E spec \in FolderSpecs : PreviewScanFails(spec)
    \/ \E readOk \in BOOLEAN : PreviewFile(readOk)
    \/ PreviewFinish
    \/ \E spec \in FolderSpecs, found \in Discoveries : RedactionScan(spec, found)
    \/ \E spec \in FolderSpecs : RedactionScanFails(spec)
    \/ \E readOk, mkdirOk, writeOk \in BOOLEAN : RedactionFile(readOk, mkdirOk, writeOk)
    \/ RedactionFinish

FileSpec == Init /\ [][FileNext]_vars

Next ==
    \/ \E call \in Calls : IdentifyBegin(call[1], call[2])
    \/ IdentifyExec
    \/ IdentifyReturn
    \/ \E call \in Calls : PreviewBegin(call[1], call[2])
    \/ PreviewStep
    \/ PreviewReturn
    \/ \E call \in Calls : RedactBegin(call[1], call[2])
    \/ RedactStep
    \/ RedactReturn
    \/ CallEnds

Spec == Init /\ [][Next]_vars

(***************************************************************************)
(* A caller that keeps its pattern objects and passes them again, call     *)
(* after call, next to calls that use the defaults or a string spec.       *)
(***************************************************************************)
ObjectPool ==
    {RegExpElem(UserPatternA), RegExpElem(UserPatternAg), RegExpElem(UserPatternAy)}
SessionSpecs ==
    {NullSpec, StringSpec(<<"a">>)} \cup {ListSpec(l) : l \in Strings(ObjectPool, MaxListLen)}
SessionContents == SmallContents \cup {Text(Digits(10))}
SessionCalls == SessionContents \X SessionSpecs

SessionNext ==
    \/ \E call \in SessionCalls : IdentifyBegin(call[1], call[2])
    \/ IdentifyExec
    \/ IdentifyReturn
    \/ \E call \in SessionCalls : PreviewBegin(call[1], call[2])
    \/ PreviewStep
    \/ PreviewReturn
    \/ \E call \in SessionCalls : RedactBegin(call[1], call[2])
    \/ RedactStep
    \/ RedactReturn
    \/ CallEnds

SessionSpec == Init /\ [][SessionNext]_vars

(***************************************************************************)
(* public/script.js: the page.  A handler runs from the click to its first *)
(* await, and from one await to the next or to its end; what the user      *)
(* types and what the server answers is chosen freely.                     *)
(***************************************************************************)
FolderPaths == {<<>>, <<" ">>, <<"a">>}

\* The bodies response.json() can give: data.success, data.fileCount and
\* data.error as the server sent them.
Bodies ==
    {[present |-> TRUE, success |-> s, fileCount |-> n, error |-> e] :
        s \in BOOLEAN, n \in 0..MaxFiles, e \in {"", "server error"}}

\* a || b for two messages
Or(a, b) == IF a # "" THEN a ELSE b

\* The user types in the folder input; the input listener hides the message.
TypeFolder(v) ==
    /\ v # folderPath
    /\ folderPath' = v
    /\ errorHidden' = TRUE
    /\ UNCHANGED <<upc, currentPreviewData, fetched, previewBtnDisabled, redactBtnDisabled,
                   loadingHidden, errorText, previewResultsHidden, redactionResultsHidden,
                   engineVars, fileVars>>

showError(message) ==
    /\ errorText' = message
    /\ errorHidden' = FALSE

showLoading ==
    /\ loadingHidden' = FALSE
    /\ previewBtnDisabled' = TRUE
    /\ redactBtnDisabled' = TRUE

\* hideLoading, the finally block of both handlers; what a catch block wrote
\* to redactBtn.disabled before it is overwritten here.
hideLoading(data) ==
    /\ loadingHidden' = TRUE
    /\ previewBtnDisabled' = FALSE
    /\ redactBtnDisabled' = ~data.present

\* handlePreview up to its first await.
PreviewClick ==
    /\ upc = "idle"
    /\ ~previewBtnDisabled
    /\ IF Trim(folderPath) = <<>>
       THEN /\ showError("Please enter a folder path")
            /\ UNCHANGED <<upc, previewBtnDisabled, redactBtnDisabled, loadingHidden>>
       ELSE /\ errorHidden' = TRUE
            /\ showLoading
            /\ upc' = "previewFetch"
            /\ UNCHANGED errorText
    /\ UNCHANGED <<folderPath, currentPreviewData, fetched, previewResultsHidden,
                   redactionResultsHidden, engineVars, fileVars>>

\* The catch block and the finally block of handlePreview.
PreviewFails(message) ==
    /\ showError(message)
    /\ previewResultsHidden' = TRUE
    /\ hideLoading(currentPreviewData)
    /\ upc' = "idle"
    /\ fetched' = NoFetched
    /\ UNCHANGED <<folderPath, currentPreviewData, redactionResultsHidden, engineVars,
                   fileVars>>

\* displayPreviewResults and the finally block of handlePreview.
displayPreviewResults(data) ==
    /\ currentPreviewData' = data
    /\ previewResultsHidden' = FALSE
    /\ redactionResultsHidden' = TRUE
    /\ hideLoading(data)
    /\ upc' = "idle"
    /\ fetched' = NoFetched
    /\ UNCHANGED <<folderPath, errorHidden, errorText, engineVars, fileVars>>

\* await fetch('/preview', ...) settles: rejected, or resolved with a
\* Response whose ok is httpOk.
PreviewFetchSettles(resolved, httpOk) ==
    /\ upc = "previewFetch"
    /\ IF ~resolved THEN PreviewFails("Failed to fetch")
       ELSE /\ upc' = "previewBody"
            /\ fetched' = [ok |-> httpOk]
            /\ UNCHANGED <<folderPath, currentPreviewData, previewBtnDisabled,
                           redactBtnDisabled, loadingHidden, errorHidden, errorText,
                           previewResultsHidden, redactionResultsHidden, engineVars,
                           fileVars>>

\* await response.json() settles, and handlePreview runs to its end.
PreviewBodySettles(parsed, data) ==
    /\ upc = "previewBody"
    /\ IF ~parsed THEN PreviewFails("Unexpected token")
       ELSE IF ~fetched.ok THEN PreviewFails(Or(data.error, "HTTP error! status"))
       ELSE IF ~data.success THEN PreviewFails(Or(data.error, "Failed to process preview"))
       ELSE IF data.fileCount = 0
       THEN PreviewFails("No HTML files found in the specified directory")
       ELSE displayPreviewResults(data)

\* handleRedact up to its first await.
RedactClick ==
    /\ upc = "idle"
    /\ ~redactBtnDisabled
    /\ IF ~currentPreviewData.present
       THEN /\ showError("Please preview the content first")
            /\ UNCHANGED <<upc, previewBtnDisabled, redactBtnDisabled, loadingHidden>>
       ELSE /\ errorHidden' = TRUE
            /\ showLoading
            /\ upc' = "redactFetch"
            /\ UNCHANGED errorText
    /\ UNCHANGED <<folderPath, currentPreviewData, fetched, previewResultsHidden,
                   redactionResultsHidden, engineVars, fileVars>>

\* The catch block and the finally block of handleRedact.
RedactFails(message) ==
    /\ showError(message)
    /\ redactionResultsHidden' = TRUE
    /\ hideLoading(currentPreviewData)
    /\ upc' = "idle"
    /\ fetched' = NoFetched
    /\ UNCHANGED <<folderPath, currentPreviewData, previewResultsHidden, engineVars,
                   fileVars>>

\* displayRedactionResults and the finally block of handleRedact.
displayRedactionResults ==
    /\ redactionResultsHidden' = FALSE
    /\ hideLoading(currentPreviewData)
    /\ upc' = "idle"
    /\ fetched' = NoFetched
    /\ UNCHANGED <<folderPath, currentPreviewData, errorHidden, errorText,
                   previewResultsHidden, engineVars, fileVars>>

\* await fetch('/redact', ...) settles.
RedactFetchSettles(resolved, httpOk) ==
    /\ upc = "redactFetch"
    /\ IF ~resolved THEN RedactFails("Failed to fetch")
       ELSE /\ upc' = "redactBody"
            /\ fetched' = [ok |-> httpOk]
            /\ UNCHANGED <<folderPath, currentPreviewData, previewBtnDisabled,
                           redactBtnDisabled, loadingHidden, errorHidden, errorText,
                           previewResultsHidden, redactionResultsHidden, engineVars,
                           fileVars>>

\* await response.json() settles, and handleRedact runs to its end; the
\* status of the response is not looked at.
RedactBodySettles(parsed, data) ==
    /\ upc = "redactBody"
    /\ IF ~parsed THEN RedactFails("Unexpected token")
       ELSE IF ~data.success THEN RedactFails(Or(data.error, "Failed to process redaction"))
       ELSE displayRedactionResults

UiNext ==
    \/ \E v \in FolderPaths : TypeFolder(v)
    \/ PreviewClick
    \/ \E resolved \in BOOLEAN, httpOk \in BOOLEAN : PreviewFetchSettles(resolved, httpOk)
    \/ \E parsed \in BOOLEAN, data \in Bodies : PreviewBodySettles(parsed, data)
    \/ RedactClick
    \/ \E resolved \in BOOLEAN, httpOk \in BOOLEAN : RedactFetchSettles(resolved, httpOk)
    \/ \E parsed \in BOOLEAN, data \in Bodies : RedactBodySettles(parsed, data)

UiSpec == Init /\ [][UiNext]_vars

(***************************************************************************)
(* Properties.                                                             *)
(***************************************************************************)
Called == op \in {"identify", "preview", "redact"}

\* The offset the next exec of the pattern being scanned starts from.
ScanPosition ==
    IF pc = "identify" /\ k <= Len(compiledPatterns)
    THEN IF compiledPatterns[k].global THEN lastIndex[compiledPatterns[k].id] ELSE 0
    ELSE 0

\* C1: identifySensitiveText terminates because, for each compiled pattern,
\* the scan position strictly advances after every match.  Stated of one
\* turn of the while loop: when exec finds a match, the offset the next exec
\* starts from is greater than the offset this one started from.
C1_ScanPositionAdvances ==
    [][(pc = "identify" /\ pc' = "identify" /\ k' = k /\ Len(matches') = Len(matches) + 1)
        => ScanPosition' > ScanPosition]_vars

\* The spec is absent or empty: null, undefined, "" or [].
AbsentOrEmpty(spec) ==
    \/ spec.t \in {"null", "undefined"}
    \/ spec.t = "string" /\ spec.chars = <<>>
    \/ spec.t = "list" /\ spec.items = <<>>

DefaultIds == {DEFAULT_PATTERNS[i].id : i \in 1..Len(DEFAULT_PATTERNS)}

\* C3: compilePatterns returns the four default patterns if and only if the
\* spec is absent or empty (null, undefined, "", []); for any other spec the
\* compiled list holds none of the defaults.
C3_DefaultsIffAbsentOrEmpty ==
    (Called /\ pc # "threw") =>
        /\ (compiledPatterns = DEFAULT_PATTERNS) <=> AbsentOrEmpty(patterns)
        /\ ~AbsentOrEmpty(patterns) =>
               \A i \in 1..Len(compiledPatterns) : compiledPatterns[i].id \notin DefaultIds

\* C5: with a content that is no text (null, undefined, a number, an
\* object), identify, preview and redact fail: none of them returns a
\* normal result, whatever the pattern spec.
C5_NonTextContentRejected ==
    (Called /\ content.t # "string") => pc # "done"

\* The files that succeeded: the keys of results, or the entries of processed.
Succeeded == IF mode = "preview" THEN DOMAIN results ELSE Range(processed)

\* C2: once the directory scan has succeeded, a failure on one file never
\* stops the loop: when the function returns, every discovered file has been
\* attempted, each is in exactly one of the success collection and the
\* errors map, success is true and fileCount is the number of files that
\* succeeded.
C2_EveryFileSettled ==
    [][(fpc = "loop" /\ fpc' = "returned") =>
          /\ response'.success
          /\ fi' = Len(htmlFiles') + 1
          /\ \A path \in Range(htmlFiles') : (path \in Succeeded') # (path \in DOMAIN errors')
          /\ Succeeded' \cup DOMAIN errors' = Range(htmlFiles')
          /\ response'.fileCount = Cardinality(Succeeded')
          /\ response'.errorsNull <=> (DOMAIN errors' = {})]_vars

\* C2 witness: a run over three files has returned; the first file failed
\* and the last one succeeded.
C2_Witness ==
    /\ fpc = "returned"
    /\ response.success
    /\ Len(htmlFiles) = 3
    /\ htmlFiles[1] \in DOMAIN errors
    /\ htmlFiles[3] \in Succeeded
    /\ response.fileCount = 2

\* A source new RegExp accepts: no star at the start and none after a star.
ValidSource(src) ==
    \A i \in 1..Len(src) : src[i] = "*" => (i > 1 /\ src[i - 1] # "*")

\* Delimiters and flags removed: a leading /, and a trailing / with flags.
Undelimited(src) ==
    LET body == IF src # <<>> /\ src[1] = "/" THEN Tail(src) ELSE src
        flags == {n \in 0..Len(body) :
                     /\ n < Len(body)
                     /\ body[Len(body) - n] = "/"
                     /\ \A j \in (Len(body) - n + 1)..Len(body) :
                            body[j] \in {"g", "i", "m", "u", "y"}}
    IN IF flags = {} THEN body
       ELSE SubSeq(body, 1, Len(body) - 1 - (CHOOSE n \in flags : \A m \in flags : m <= n))

ValidElem(e) ==
    e.t = "regexp" \/ (e.t = "string" /\ ValidSource(Undelimited(e.chars)))

\* The source text of the pattern an element compiles to.
ElemSource(e) == IF e.t = "regexp" THEN e.re.src ELSE RegExpSource(Undelimited(e.chars))

\* C4: for a spec given as a string or a list, an invalid source never makes
\* compilePatterns raise: the compiled list is the valid sources in their
\* order, the invalid ones removed; when every source is invalid the list
\* is empty and identify returns no match, count 0.
C4_InvalidSourcesDropped ==
    (Called /\ content.t = "string" /\ patterns.t \in {"string", "list"} /\ ~Falsy(patterns)) =>
        LET valid == SelectSeq(PatternSources(patterns), ValidElem)
        IN /\ pc # "threw"
           /\ Len(compiledPatterns) = Len(valid)
           /\ \A i \in 1..Len(valid) : compiledPatterns[i].src = ElemSource(valid[i])
           /\ (valid = <<>> /\ op = "identify") =>
                  /\ pc \in {"identify", "done"}
                  /\ matches = <<>>
                  /\ pc = "done" => result.count = 0

\* C4 witness: a call has returned whose spec mixes invalid and valid
\* sources: the compiled list is shorter than the spec, and not empty.
C4_Witness ==
    /\ pc = "done"
    /\ patterns.t \in {"string", "list"}
    /\ ~Falsy(patterns)
    /\ compiledPatterns # <<>>
    /\ Len(compiledPatterns) < Len(PatternSources(patterns))

\* C6: with the default patterns, a string that holds one instance of one
\* default category and no instance of another gives count 1, the match
\* being the whole instance; no other default pattern matches the instance
\* or a part of it.
C6_OneMatchPerInstance ==
    \A x \in Crafted :
        (pc = "done" /\ op = "identify" /\ Falsy(patterns) /\ content = Text(x.text)) =>
            /\ result.count = 1
            /\ result.matches[1].text = x.instance
            /\ result.matches[1].pattern = RegExpToString(DEFAULT_PATTERNS[x.category])

\* Every non-overlapping match of the pattern in s, found from left to
\* right, whatever the pattern's flags.
AllMatches(re, s) == GlobalMatches([re EXCEPT !.global = TRUE, !.sticky = FALSE], s, 0)

RECURSIVE SumLengths(_)
SumLengths(ms) ==
    IF ms = <<>> THEN 0 ELSE (Head(ms).end - Head(ms).index) + SumLengths(Tail(ms))

\* C7: for one compiled pattern with N >= 0 non-overlapping matches in the
\* content, redact returns the content with those N spans replaced by
\* [REDACTED] and the rest unchanged: N occurrences of the token, the length
\* changed by the spans removed and the tokens inserted, and for N = 0 the
\* content itself.
C7_RedactReplacesEveryMatch ==
    (/\ pc = "done" /\ op = "redact" /\ content.t = "string"
     /\ Len(compiledPatterns) = 1
     /\ Occurrences(content.v, RedactionToken) = 0) =>
        LET ms == AllMatches(compiledPatterns[1], content.v)
            out == result.value.v
        IN /\ out = Splice(content.v, ms, Redaction)
           /\ Occurrences(out, RedactionToken) = Len(ms)
           /\ Len(out) = Len(content.v) - SumLengths(ms) + Len(ms) * Len(RedactionToken)
           /\ ms = <<>> => out = content.v

\* C9: identify returns its matches pattern-major: the list is, in pattern
\* order, each pattern's matches; within a pattern the offsets increase
\* strictly and the matches do not overlap; every text is the content at
\* [index, index + length); count is the number of matches.
PatternMatches(re, s) ==
    LET ms == AllMatches(re, s)
    IN [i \in 1..Len(ms) |->
           [text |-> Slice(s, ms[i].index, ms[i].end), index |-> ms[i].index,
            length |-> ms[i].end - ms[i].index, pattern |-> RegExpToString(re)]]

C9_MatchesPatternMajor ==
    (pc = "done" /\ op = "identify") =>
        LET s == JsToString(content)
            parts == [i \in 1..Len(compiledPatterns) |-> PatternMatches(compiledPatterns[i], s)]
        IN /\ result.matches = Flatten(parts)
           /\ result.count = Len(result.matches)
           /\ \A i \in 1..Len(result.matches) :
                  LET m == result.matches[i]
                  IN /\ m.index >= 0
                     /\ m.index + m.length <= Len(s)
                     /\ m.text = Slice(s, m.index, m.index + m.length)
           /\ \A i \in 1..Len(parts) : \A j \in 1..(Len(parts[i]) - 1) :
                  /\ parts[i][j].index < parts[i][j + 1].index
                  /\ parts[i][j].index + parts[i][j].length <= parts[i][j + 1].index

\* C9 witness: identify has returned the matches of two patterns, and the
\* second pattern's matches start again left of the first pattern's last.
C9_Witness ==
    /\ pc = "done"
    /\ op = "identify"
    /\ Len(compiledPatterns) >= 2
    /\ result.count >= 3
    /\ \E i \in 1..(result.count - 1) :
           result.matches[i + 1].index < result.matches[i].index

\* The text s without every occurrence of the opening and of the closing
\* marker.
MarkerStarts(s, w) == {q \in 0..(Len(s) - Len(w)) : Slice(s, q, q + Len(w)) = w}

StripMarkers(s) ==
    LET cover == UNION ({(q + 1)..(q + Len(MarkOpen)) : q \in MarkerStarts(s, MarkOpen)}
                        \cup {(q + 1)..(q + Len(MarkClose)) : q \in MarkerStarts(s, MarkClose)})
        keep == SelectSeq([p \in 1..Len(s) |-> p], LAMBDA p : p \notin cover)
    IN [i \in 1..Len(keep) |-> s[keep[i]]]

NoMarkerIn(s) == MarkerStarts(s, MarkOpen) = {} /\ MarkerStarts(s, MarkClose) = {}

Rewritten(re, s) ==
    LET ms == AllMatches(re, s)
    IN IF re.global \/ ms = <<>> THEN ms ELSE <<ms[1]>>

MarkerLen == Len(MarkOpen) + Len(MarkClose)

C10_EveryMatchInCurrentBufferRewritten ==
    [][(pc \in {"preview", "redact"} /\ pc' = pc /\ k' = k + 1) =>
          LET ms == AllMatches(compiledPatterns[k], buffer.v)
          IN /\ pc = "preview" => buffer'.v = Splice(buffer.v, ms, Highlight)
             /\ pc = "redact" => buffer'.v = Splice(buffer.v, ms, Redaction)]_vars

\* What a call returns when every pattern object it is given is as new,
\* its lastIndex 0: the matches of the exec loop of one pattern,
RECURSIVE ExecLoop(_, _, _)
ExecLoop(re, s, li) ==
    LET m == RegExpExec(re, li, s)
    IN IF ~m.found THEN <<>>
       ELSE <<MatchRecord(re, s, m)>> \o ExecLoop(re, s, m.lastIndex)

\* and the text the forEach of preview or redact builds from position i on,
\* heap holding the lastIndex of the objects.
RECURSIVE FoldFrom(_, _, _, _, _)
FoldFrom(name, text, list, i, heap) ==
    IF i > Len(list) THEN text
    ELSE LET re == list[i]
             a == IF name = "preview" THEN PreviewApply(text, re, heap[re.id])
                  ELSE RedactApply(text, re, heap[re.id])
         IN FoldFrom(name, a.text, list, i + 1, [heap EXCEPT ![re.id] = a.li])

AsNew(list) == [id \in SharedIds \cup {list[i].id : i \in 1..Len(list)} |-> 0]

FirstCallResult ==
    IF op = "identify"
    THEN ScanResult(Flatten([i \in 1..Len(compiledPatterns) |->
                                ExecLoop(compiledPatterns[i], JsToString(content), 0)]))
    ELSE IF compiledPatterns = <<>> THEN ValueResult(content)
    ELSE ValueResult(Text(FoldFrom(op, content.v, compiledPatterns, 1,
                                   AsNew(compiledPatterns))))

\* C11: identify, preview and redact carry no state from one call to the
\* next: whatever calls came before, a call returns what the same call
\* returns when it is the first, and between calls the lastIndex of every
\* shared default pattern is 0.
C11_CallsCarryNoState ==
    /\ (pc = "done" /\ Called) => result = FirstCallResult
    /\ pc = "idle" =>
          \A i \in 1..Len(DEFAULT_PATTERNS) : lastIndex[DEFAULT_PATTERNS[i].id] = 0

\* The pattern objects a list spec holds, in the order of the list.
ObjectsOf(items) ==
    LET objs == SelectSeq(items, LAMBDA e : e.t = "regexp")
    IN [i \in 1..Len(objs) |-> objs[i].re]

\* C12: compilePatterns accepts every variant of the pattern spec (absent, a
\* string, a list, a pattern object) and returns a list without raising; a
\* pattern object, given alone or as an element of a list, is in the
\* compiled list unchanged.  Stated of the calls with a text content, which
\* raise only when compilePatterns does.
C12_EveryVariantCompiles ==
    (Called /\ content.t = "string") =>
        /\ pc # "threw"
        /\ patterns.t = "regexp" => compiledPatterns = <<patterns.items[1].re>>
        /\ patterns.t = "list" =>
              SelectSeq(compiledPatterns, LAMBDA re : re.id \in SharedIds)
                  = ObjectsOf(patterns.items)

\* C13: in the page, whenever no request is loading, the redact button is
\* enabled only if the most recent preview attempt succeeded.  The preview
\* results are shown by an attempt that succeeds and hidden by one that
\* fails, so they are visible exactly when the most recent attempt
\* succeeded.
C13_RedactEnabledOnlyAfterGoodPreview ==
    (upc = "idle" /\ loadingHidden /\ ~redactBtnDisabled) => ~previewResultsHidden

====
